---------------------------- MODULE Spec2Model ----------------------------
(***************************************************************************)
(* Model of the priority-ordered deployment orchestrator of                *)
(* ARCHIVE/projects/fogg/calendar/deploy/critical-workflow-orchestrator.py *)
(* (CriticalWorkflowOrchestrator.deploy and its helpers).                  *)
(*                                                                         *)
(* A name is a sequence of tokens: words and the separators "-" and "_",   *)
(* so that "test-automator" is <<"test", "-", "automator">>.  A dict is a  *)
(* function; an insertion-ordered dict of agents is the sequence of its    *)
(* keys.  Every await of deploy() is one action.                           *)
(***************************************************************************)
EXTENDS Integers, Sequences, FiniteSets, TLC

\* ----------------------------------------------------------------------
\* Bounds
\* ----------------------------------------------------------------------
MaxAgents == 4          \* longest configured agents list
MaxTicks == 2           \* how often the clock advances in a run of the scorer
MaxScorerCalls == 2     \* calls of calculate_confidence in a run of the scorer
MaxCalls == 2           \* calls of deploy() on one orchestrator instance
MaxArgAgents == 2       \* longest agents list handed to DeploymentConfig by main() or a caller

\* ----------------------------------------------------------------------
\* Agent names and the registry
\* ----------------------------------------------------------------------
SecurityAuditor     == <<"security", "-", "auditor">>
PerformanceEngineer == <<"performance", "-", "engineer">>
TestAutomator       == <<"test", "-", "automator">>
DatabaseOptimizer   == <<"database", "-", "optimizer">>
CodeReviewer        == <<"code", "_", "reviewer">>   \* a name no class is registered for

agent_classes == {SecurityAuditor, PerformanceEngineer, TestAutomator, DatabaseOptimizer}

AgentNames == agent_classes \cup {CodeReviewer}

\* ValidationStatus values
PASSED == "passed"
FAILED == "failed"

None == <<"None">>

\* ----------------------------------------------------------------------
\* Sequence helpers
\* ----------------------------------------------------------------------
Range(s) == {s[i] : i \in DOMAIN s}

Reverse(s) == [i \in 1..Len(s) |-> s[Len(s) + 1 - i]]

IsPrefix(p, s) == Len(p) <= Len(s) /\ \A i \in 1..Len(p) : p[i] = s[i]

RECURSIVE SeqsNoDup(_, _)
\* the lists of at most n distinct elements of S
SeqsNoDup(S, n) ==
    IF n = 0 THEN {<<>>}
    ELSE LET shorter == SeqsNoDup(S, n - 1)
         IN  shorter \cup UNION {{Append(s, x) : x \in S \ Range(s)} :
                                    s \in {t \in shorter : Len(t) = n - 1}}

\* ----------------------------------------------------------------------
\* DeploymentConfig
\* ----------------------------------------------------------------------
\* a priority chain given as the CLI gives it: categories, first is rank 1
ChainOf(cats) == [c \in Range(cats) |-> CHOOSE i \in DOMAIN cats :
                                          cats[i] = c /\ \A j \in DOMAIN cats : cats[j] = c => j <= i]

DefaultChain == ChainOf(<< <<"security">>, <<"performance">>, <<"testing">>, <<"architecture">> >>)

DatabaseChain == ChainOf(<< <<"security">>, <<"performance">>, <<"testing">>, <<"database">> >>)

TestFirstChain == ChainOf(<< <<"test">>, <<"database">>, <<"performance">>, <<"security">> >>)

EmptyChain == [c \in {} |-> 0]

\* a chain a caller may build whose ranks reach and pass the default 999
WideChain == (<<"performance">> :> 999) @@ (<<"security">> :> 1000)

PriorityChains == {EmptyChain, DatabaseChain, TestFirstChain, WideChain}

\* the arguments of DeploymentConfig(...)
ConfigArgs(agents, chain, mode, rollback) ==
    [agents           |-> agents,
     priority_chain   |-> chain,
     validation_mode  |-> mode,
     rollback_enabled |-> rollback]

\* an empty agents list is let through
PostInitRaises_Never(a) == FALSE

\* DeploymentConfig.__post_init__ raises ValueError on an empty agents list
PostInitRaises(a) == a.agents = <<>>

\* DeploymentConfig.__post_init__: an empty chain is replaced by the default;
\* nothing else is looked at
PostInit(a) ==
    [a EXCEPT !.priority_chain = IF DOMAIN a.priority_chain = {} THEN DefaultChain
                                                                 ELSE a.priority_chain]

\* the configurations deploy() is explored on
Configs == {PostInit(ConfigArgs(a, c, "automated", r)) :
                a \in SeqsNoDup(AgentNames, MaxAgents) \ {<<>>},
                c \in PriorityChains,
                r \in BOOLEAN}

\* self.config before a configuration exists
NoConfig == ConfigArgs(<<>>, EmptyChain, "none", FALSE)

\* ----------------------------------------------------------------------
\* _initialize_agents: the keys of self.agents, in insertion order
\* ----------------------------------------------------------------------
\* every name is taken for a registered one
Registered_Any(name) == TRUE

\* if agent_name in agent_classes
Registered(name) == name \in agent_classes

RECURSIVE InitializeAgents(_)
InitializeAgents(names) ==
    IF names = <<>> THEN <<>>
    ELSE LET rest == InitializeAgents(SubSeq(names, 1, Len(names) - 1))
             last == names[Len(names)]
         IN  IF Registered(last) /\ last \notin Range(rest)
             THEN Append(rest, last)
             ELSE rest

\* ----------------------------------------------------------------------
\* The sort key of deploy(): name.replace("-", "_").split("_")[0], looked up
\* in the priority chain with default 999
\* ----------------------------------------------------------------------
Replace(name) == [i \in DOMAIN name |-> IF name[i] = "-" THEN "_" ELSE name[i]]

RECURSIVE FirstPart(_)
\* split("_")[0]: the tokens before the first "_"
FirstPart(name) ==
    IF name = <<>> \/ name[1] = "_" THEN <<>>
    ELSE <<name[1]>> \o FirstPart(Tail(name))

Category(name) == FirstPart(Replace(name))

UnrankedPriority == 999

Rank(chain, name) ==
    IF Category(name) \in DOMAIN chain THEN chain[Category(name)] ELSE UnrankedPriority

RECURSIVE Insert(_, _, _)
\* stable insertion: x goes after every element whose key is not larger
Insert(chain, sorted, x) ==
    IF sorted = <<>> THEN <<x>>
    ELSE IF Rank(chain, sorted[1]) <= Rank(chain, x)
         THEN <<sorted[1]>> \o Insert(chain, Tail(sorted), x)
         ELSE <<x>> \o sorted

RECURSIVE Sorted(_, _)
\* sorted(self.agents.items(), key=...): a stable sort by rank
Sorted(chain, items) ==
    IF items = <<>> THEN <<>>
    ELSE Insert(chain, Sorted(chain, SubSeq(items, 1, Len(items) - 1)), items[Len(items)])

\* ----------------------------------------------------------------------
\* The shared context: a dict from keys to values.  A key is <<type, name>>
\* with type "str" or "int"; a value is a tuple of strings.
\* ----------------------------------------------------------------------
StrKey(name) == <<"str", name>>

IntKey(name) == <<"int", name>>

\* the context main() builds, and one a caller of deploy() may pass whose only
\* key is a number
MainContext == (StrKey(<<"dry", "_", "run">>) :> <<"False">>)

IntKeyContext == (IntKey(<<"1">>) :> <<"x">>)

Contexts == {MainContext, IntKeyContext}

\* f"{agent_name}_results"
ResultsKey(agent_name) == StrKey(agent_name \o <<"_", "results">>)

\* json.dumps(context, sort_keys=True, default=str) raises TypeError when it
\* has to order keys of different types
Serializable(ctx) == \A k1, k2 \in DOMAIN ctx : k1[1] = k2[1]

\* sha256 over the key-sorted serialization: equal contexts, equal hashes
ContextHash(ctx) == ctx

\* the checkpoint does not name its agent
Checkpoint_Unnamed(agent_name, ctx) ==
    [agent |-> <<>>, context_hash |-> ContextHash(ctx), state |-> "pre_execution"]

\* _create_checkpoint
Checkpoint(agent_name, ctx) ==
    [agent |-> agent_name, context_hash |-> ContextHash(ctx), state |-> "pre_execution"]

\* the context is replaced by the agent's entry
Merge_Replace(ctx, agent_name, metrics) == (ResultsKey(agent_name) :> metrics)

\* context[f"{agent_name}_results"] = result.metrics
Merge(ctx, agent_name, metrics) ==
    [k \in DOMAIN ctx \cup {ResultsKey(agent_name)} |->
        IF k = ResultsKey(agent_name) THEN metrics ELSE ctx[k]]

\* ----------------------------------------------------------------------
\* What the orchestrator can observe of an agent (BaseAgent's contract)
\* ----------------------------------------------------------------------
\* validate() and rollback() return a bool or raise
CallOutcomes == {"True", "False", "raise"}

RollbackData(agent_name) == <<"initial_state">> \o agent_name

\* DatabaseOptimizer.execute stores rollback_data once it captured the initial
\* state; the other agents never set it
RollbackDatas(agent_name, status) ==
    IF agent_name = DatabaseOptimizer
    THEN IF status = PASSED THEN {RollbackData(agent_name)}
                            ELSE {None, RollbackData(agent_name)}
    ELSE {None}

\* the DeploymentResult execute returns
Result(agent_name, status, data) ==
    [agent         |-> agent_name,
     status        |-> status,
     metrics       |-> <<"metrics">> \o agent_name,
     errors        |-> IF status = FAILED THEN << <<"error">> \o agent_name >> ELSE <<>>,
     warnings      |-> << <<"warning">> \o agent_name >>,
     rollback_data |-> data]

\* execute() returns a PASSED or FAILED result, or raises
ExecuteOutcomes(agent_name) ==
    {[raised |-> FALSE, result |-> Result(agent_name, st, d)] :
        st \in {PASSED}, d \in RollbackDatas(agent_name, PASSED)}
    \cup {[raised |-> FALSE, result |-> Result(agent_name, st, d)] :
        st \in {FAILED}, d \in RollbackDatas(agent_name, FAILED)}
    \cup {[raised |-> TRUE, result |-> Result(agent_name, FAILED, None)]}

\* the new result is put in front of the recorded ones
AppendResult_Front(rs, r) == <<r>> \o rs

\* self.results.append(result)
AppendResult(rs, r) == Append(rs, r)

\* ----------------------------------------------------------------------
\* _generate_report
\* ----------------------------------------------------------------------
RECURSIVE Concat(_)
Concat(ss) == IF ss = <<>> THEN <<>> ELSE ss[1] \o Concat(Tail(ss))

\* every result counts as successful
SuccessfulAgents_All(rs) == Len(rs)

\* sum(1 for r in self.results if r.status == ValidationStatus.PASSED)
SuccessfulAgents(rs) == Cardinality({k \in DOMAIN rs : rs[k].status = PASSED})

\* the factor 100 is missing
SuccessRate_NoPercent(rs) ==
    IF Len(rs) > 0 THEN <<SuccessfulAgents(rs), Len(rs)>> ELSE <<0, 1>>

\* successful_agents / total_agents * 100 as the fraction <<numerator, denominator>>;
\* 0 when there is no result
SuccessRate(rs) ==
    IF Len(rs) > 0 THEN <<SuccessfulAgents(rs) * 100, Len(rs)>> ELSE <<0, 1>>

AgentSummary(r) ==
    [agent |-> r.agent, status |-> r.status, metrics |-> r.metrics,
     errors |-> r.errors, warnings |-> r.warnings]

\* the summaries of FAILED results are left out
GenerateReport_PassedOnly(rs, status) ==
    LET passed == SelectSeq(rs, LAMBDA r : r.status = PASSED)
    IN  [status            |-> status,
         agent_results     |-> [k \in DOMAIN passed |-> AgentSummary(passed[k])],
         errors            |-> Concat([k \in DOMAIN rs |-> rs[k].errors]),
         warnings          |-> Concat([k \in DOMAIN rs |-> rs[k].warnings]),
         success_rate      |-> SuccessRate(rs),
         total_agents      |-> Len(rs),
         successful_agents |-> SuccessfulAgents(rs)]

\* _generate_report: the report built from self.results
GenerateReport(rs, status) ==
    [status            |-> status,
     agent_results     |-> [k \in DOMAIN rs |-> AgentSummary(rs[k])],
     errors            |-> Concat([k \in DOMAIN rs |-> rs[k].errors]),
     warnings          |-> Concat([k \in DOMAIN rs |-> rs[k].warnings]),
     success_rate      |-> SuccessRate(rs),
     total_agents      |-> Len(rs),
     successful_agents |-> SuccessfulAgents(rs)]

\* the value of `report' before _generate_report ran
NoReport == GenerateReport(<<>>, "none")

\* ----------------------------------------------------------------------
\* The decisions deploy() and its helpers take
\* ----------------------------------------------------------------------
\* a validate() that returns False is let through
ValidationRaises_OnlyOnRaise(out) == out = "raise"

\* _validate_agents: `if not await agent.validate(): raise RuntimeError`
ValidationRaises(out) == out # "True"

\* the configuration's switch is ignored
ShouldRollback_Always(cfg) == TRUE

\* `if self.config.rollback_enabled:` before each call of _perform_rollback
ShouldRollback(cfg) == cfg.rollback_enabled

\* the `break` is missing
LoopNext_NoBreak(status, p, n) ==
    IF p = n
    THEN [pc |-> "report", pos |-> p]
    ELSE [pc |-> "checkpoint", pos |-> p + 1]

\* where the loop over sorted_agents goes once the result of the agent at
\* position p of n is handled: `break` on FAILED, else the next agent
LoopNext(status, p, n) ==
    IF status = FAILED \/ p = n
    THEN [pc |-> "report", pos |-> p]
    ELSE [pc |-> "checkpoint", pos |-> p + 1]

\* the results are walked in execution order
RollbackRange_Forward(n) == [k \in 1..n |-> k]

\* range(len(self.results) - 1, -1, -1), as indices from 1
RollbackRange(n) == [k \in 1..n |-> n + 1 - k]

\* the loop of _perform_rollback ends after its first turn
RollbackNext_Stop(n, j) == 0

\* the index the loop of _perform_rollback visits after index j; 0 when j was the last
RollbackNext(n, j) ==
    LET range == RollbackRange(n)
        p     == CHOOSE q \in DOMAIN range : range[q] = j
    IN  IF p < Len(range) THEN range[p + 1] ELSE 0

\* ----------------------------------------------------------------------
\* State
\* ----------------------------------------------------------------------
VARIABLES
    config,             \* self.config
    agents,             \* keys of self.agents, in insertion order
    results,            \* self.results
    checkpoints,        \* self.checkpoints
    context,            \* the shared context
    sorted_agents,      \* deploy()'s sorted_agents
    deployment_status,  \* deploy()'s deployment_status
    pc,                 \* where deploy() stands
    pos,                \* index of the agent being validated or executed
    i,                  \* _perform_rollback's loop index
    site,               \* which call of _perform_rollback runs: "failure" or "handler"
    report,             \* deploy()'s report
    error,              \* the exception deploy() caught, "" if none
    outcome,            \* how deploy() ended: "none", "report", "error", "raised"
    report_files,       \* the per-run files under deploy/reports
    latest,             \* deploy/reports/latest.json
    validate_calls,     \* history: the validate() calls and what each returned, in order
    execute_calls,      \* history: the execute() calls and how each ended, in order
    rollback_calls      \* history: the rollback() calls, in order

VARIABLES
    now,                \* the wall clock: weekday (Monday is 0), hour, minute
    ticks,              \* how often the clock advanced
    scorer_calls,       \* history: the calculate_confidence calls and their results
    entry,              \* who runs the program: "main" (the CLI), "caller" or "none"
    argv,               \* the command line main() parses
    args,               \* the arguments DeploymentConfig is constructed with
    stdout,             \* what main() printed, in order
    exit_code,          \* the exit code of the process, -1 while it runs
    agent_pc,           \* where an agent's execute() stands: "off", "idle", "loop", "returned"
    step,               \* index of the sub-check execute() runs next
    tally,              \* TestAutomator.execute's total_tests, passed_tests, failed_tests
    agent_result,       \* the DeploymentResult execute() builds
    fault,              \* history: the exception raised inside execute(), "" if none
    deploy_calls,       \* how many calls of deploy() the instance has seen
    base                \* history: how many results and rollback calls there were when
                        \* the current call of deploy() began

deployvars == <<config, agents, results, checkpoints, context, sorted_agents,
                deployment_status, pc, pos, i, site, report, error, outcome,
                report_files, latest, validate_calls, execute_calls, rollback_calls>>

scorervars == <<now, ticks, scorer_calls>>

mainvars == <<entry, argv, args, stdout, exit_code>>

agentvars == <<agent_pc, step, tally, agent_result, fault>>

reusevars == <<deploy_calls, base>>

othervars == <<scorervars, mainvars, agentvars, reusevars>>

vars == <<deployvars, othervars>>

NoClock == [day |-> 0, hour |-> 0, minute |-> 0]

\* no ConfidenceScorer in this run
ScorerOff ==
    /\ now = NoClock
    /\ ticks = 0
    /\ scorer_calls = <<>>

NoArgv == [agents |-> <<>>, priority |-> <<>>, validation |-> "none", rollback |-> "none"]

NoBase == [results |-> 0, rollbacks |-> 0]

\* the orchestrator is called once
ReuseOff ==
    /\ deploy_calls = 1
    /\ base = NoBase

NoTally == [total |-> 0, passed |-> 0, failed |-> 0]

\* DeploymentResult(agent=..., status=ValidationStatus.IN_PROGRESS, ...)
NewResult(agent_name) ==
    [agent |-> agent_name, status |-> "in_progress", metrics |-> <<>>, errors |-> <<>>,
     warnings |-> <<>>, rollback_data |-> None, end_time |-> None]

\* no execute() of a concrete agent is looked into
AgentsOff ==
    /\ agent_pc = "off"
    /\ step = 0
    /\ tally = NoTally
    /\ agent_result = NewResult(<<>>)
    /\ fault = ""

\* deploy() is called on an orchestrator built elsewhere
MainOff ==
    /\ entry = "none"
    /\ argv = NoArgv
    /\ args = NoConfig
    /\ stdout = <<>>
    /\ exit_code = -1

\* CriticalWorkflowOrchestrator.__init__ on a valid configuration, before
\* deploy(context) is called
Init ==
    /\ config \in Configs
    /\ agents = InitializeAgents(config.agents)
    /\ results = <<>>
    /\ checkpoints = <<>>
    /\ context \in Contexts
    /\ sorted_agents = <<>>
    /\ deployment_status = "none"
    /\ pc = "idle"
    /\ pos = 0
    /\ i = 0
    /\ site = "none"
    /\ report = NoReport
    /\ error = ""
    /\ outcome = "none"
    /\ report_files = <<>>
    /\ latest = NoReport
    /\ validate_calls = <<>>
    /\ execute_calls = <<>>
    /\ rollback_calls = <<>>
    /\ ScorerOff
    /\ MainOff
    /\ AgentsOff
    /\ ReuseOff

\* ----------------------------------------------------------------------
\* deploy(), one action per await
\* ----------------------------------------------------------------------
\* entry of deploy(): deployment_status = "success", then _validate_agents
Deploy ==
    /\ pc = "idle"
    /\ deployment_status' = "success"
    /\ pos' = 1
    /\ pc' = IF agents = <<>> THEN "sort" ELSE "validate"
    /\ UNCHANGED <<config, agents, results, checkpoints, context, sorted_agents,
                   i, site, report, error, outcome, report_files, latest,
                   validate_calls, execute_calls, rollback_calls>>
    /\ UNCHANGED othervars

\* _validate_agents: one agent.validate(); False raises RuntimeError
ValidateAgent ==
    /\ pc = "validate"
    /\ \E out \in CallOutcomes :
         /\ validate_calls' = Append(validate_calls,
                                     [agent |-> agents[pos], returned |-> out])
         /\ IF ~ValidationRaises(out)
            THEN /\ pos' = pos + 1
                 /\ pc' = IF pos = Len(agents) THEN "sort" ELSE "validate"
                 /\ error' = error
            ELSE /\ pos' = pos
                 /\ pc' = "except"
                 /\ error' = IF out = "False" THEN "RuntimeError: validation failed"
                                              ELSE "validate raised"
    /\ UNCHANGED <<config, agents, results, checkpoints, context, sorted_agents,
                   deployment_status, i, site, report, outcome, report_files,
                   latest, execute_calls, rollback_calls>>
    /\ UNCHANGED othervars

\* sorted_agents = sorted(self.agents.items(), key=...)
SortAgents ==
    /\ pc = "sort"
    /\ sorted_agents' = Sorted(config.priority_chain, agents)
    /\ pos' = 1
    /\ pc' = IF agents = <<>> THEN "report" ELSE "checkpoint"
    /\ UNCHANGED <<config, agents, results, checkpoints, context,
                   deployment_status, i, site, report, error, outcome,
                   report_files, latest, validate_calls, execute_calls,
                   rollback_calls>>
    /\ UNCHANGED othervars

\* checkpoint = await self._create_checkpoint(agent_name, context)
CreateCheckpoint ==
    /\ pc = "checkpoint"
    /\ IF Serializable(context)
       THEN /\ checkpoints' = Append(checkpoints, Checkpoint(sorted_agents[pos], context))
            /\ pc' = "execute"
            /\ error' = error
       ELSE /\ checkpoints' = checkpoints
            /\ pc' = "except"
            /\ error' = "TypeError"
    /\ UNCHANGED <<config, agents, results, context, sorted_agents,
                   deployment_status, pos, i, site, report, outcome,
                   report_files, latest, validate_calls, execute_calls,
                   rollback_calls>>
    /\ UNCHANGED othervars

\* result = await agent.execute(context) and the handling of the result
ExecuteAgent ==
    /\ pc = "execute"
    /\ \E out \in ExecuteOutcomes(sorted_agents[pos]) :
         IF out.raised
         THEN /\ execute_calls' = Append(execute_calls,
                                    [agent |-> sorted_agents[pos], status |-> "raise"])
              /\ pc' = "except"
              /\ error' = "execute raised"
              /\ UNCHANGED <<results, context, deployment_status, pos, i, site>>
         ELSE /\ execute_calls' = Append(execute_calls,
                                    [agent |-> sorted_agents[pos], status |-> out.result.status])
              /\ results' = AppendResult(results, out.result)
              /\ error' = error
              /\ IF out.result.status = FAILED
                 THEN /\ deployment_status' = "failed"
                      /\ context' = context
                      /\ IF ShouldRollback(config)
                         THEN /\ pc' = "rollback"
                              /\ site' = "failure"
                              /\ i' = RollbackRange(Len(results'))[1]
                              /\ pos' = pos
                         ELSE /\ pc' = LoopNext(FAILED, pos, Len(sorted_agents)).pc
                              /\ pos' = LoopNext(FAILED, pos, Len(sorted_agents)).pos
                              /\ UNCHANGED <<site, i>>
                 ELSE /\ context' = Merge(context, sorted_agents[pos], out.result.metrics)
                      /\ pc' = LoopNext(PASSED, pos, Len(sorted_agents)).pc
                      /\ pos' = LoopNext(PASSED, pos, Len(sorted_agents)).pos
                      /\ UNCHANGED <<deployment_status, site, i>>
    /\ UNCHANGED <<config, agents, checkpoints, sorted_agents, report, outcome,
                   report_files, latest, validate_calls, rollback_calls>>
    /\ UNCHANGED othervars

\* every rollback() is handed the rollback_data of the last result
RollbackCall_LastData(rs, k, returned, where) ==
    [agent      |-> rs[k].agent,
     checkpoint |-> rs[Len(rs)].rollback_data,
     returned   |-> returned,
     site       |-> where]

\* the rollback() call _perform_rollback makes for results[k]
RollbackCall(rs, k, returned, where) ==
    [agent      |-> rs[k].agent,
     checkpoint |-> rs[k].rollback_data,
     returned   |-> returned,
     site       |-> where]

\* _perform_rollback: one iteration of its loop, i counting down from
\* len(self.results) - 1 (here from Len(results))
RollbackAgent ==
    /\ pc = "rollback"
    /\ \E out \in CallOutcomes :
         /\ rollback_calls' =
               IF results[i].agent \in Range(agents)
               THEN Append(rollback_calls, RollbackCall(results, i, out, site))
               ELSE rollback_calls
         /\ IF out = "raise" /\ results[i].agent \in Range(agents)
            THEN \* the exception leaves _perform_rollback
                 /\ UNCHANGED <<i, pos, deployment_status>>
                 /\ IF site = "failure"
                    THEN /\ pc' = "except"
                         /\ error' = "rollback raised"
                         /\ outcome' = outcome
                    ELSE /\ pc' = "done"
                         /\ error' = error
                         /\ outcome' = "raised"
            ELSE /\ i' = RollbackNext(Len(results), i)
                 /\ error' = error
                 /\ IF i' # 0
                    THEN /\ pc' = "rollback"
                         /\ UNCHANGED <<pos, deployment_status, outcome>>
                    ELSE IF site = "failure"
                         THEN \* deployment_status = "rolled_back"; break
                              /\ deployment_status' = "rolled_back"
                              /\ pc' = LoopNext(FAILED, pos, Len(sorted_agents)).pc
                              /\ pos' = LoopNext(FAILED, pos, Len(sorted_agents)).pos
                              /\ outcome' = outcome
                         ELSE \* return {"status": "error", ...}
                              /\ pc' = "done"
                              /\ outcome' = "error"
                              /\ UNCHANGED <<pos, deployment_status>>
    /\ UNCHANGED <<config, agents, results, checkpoints, context, sorted_agents,
                   site, report, report_files, latest, validate_calls, execute_calls>>
    /\ UNCHANGED othervars

\* report = self._generate_report(start_time, deployment_status)
GenerateReportStep ==
    /\ pc = "report"
    /\ report' = GenerateReport(results, deployment_status)
    /\ pc' = "save"
    /\ UNCHANGED <<config, agents, results, checkpoints, context, sorted_agents,
                   deployment_status, pos, i, site, error, outcome, report_files,
                   latest, validate_calls, execute_calls, rollback_calls>>
    /\ UNCHANGED othervars

\* how _save_report can end: both files written, or an OSError before the
\* per-run file is written, or one after it and before latest.json is
SaveOutcomes == {"saved", "run_file_failed", "latest_failed"}

\* await self._save_report(report); return report
SaveReport ==
    /\ pc = "save"
    /\ \E out \in SaveOutcomes :
         /\ report_files' = IF out = "run_file_failed" THEN report_files
                                                       ELSE Append(report_files, report)
         /\ latest' = IF out = "saved" THEN report ELSE latest
         /\ IF out = "saved"
            THEN /\ pc' = "done"
                 /\ outcome' = "report"
                 /\ error' = error
            ELSE /\ pc' = "except"
                 /\ outcome' = outcome
                 /\ error' = "OSError"
    /\ UNCHANGED <<config, agents, results, checkpoints, context, sorted_agents,
                   deployment_status, pos, i, site, report, validate_calls,
                   execute_calls, rollback_calls>>
    /\ UNCHANGED othervars

\* except Exception: roll back if enabled, then return the error dict
HandleError ==
    /\ pc = "except"
    /\ IF ShouldRollback(config) /\ results # <<>>
       THEN /\ pc' = "rollback"
            /\ site' = "handler"
            /\ i' = RollbackRange(Len(results))[1]
            /\ outcome' = outcome
       ELSE /\ pc' = "done"
            /\ outcome' = "error"
            /\ UNCHANGED <<site, i>>
    /\ UNCHANGED <<config, agents, results, checkpoints, context, sorted_agents,
                   deployment_status, pos, report, error, report_files, latest,
                   validate_calls, execute_calls, rollback_calls>>
    /\ UNCHANGED othervars

Next ==
    \/ Deploy
    \/ ValidateAgent
    \/ SortAgents
    \/ CreateCheckpoint
    \/ ExecuteAgent
    \/ RollbackAgent
    \/ GenerateReportStep
    \/ SaveReport
    \/ HandleError

\* one call of deploy() on a freshly built orchestrator, as main() makes it
Spec == Init /\ [][Next]_vars

\* ----------------------------------------------------------------------
\* No orchestrator in this run
\* ----------------------------------------------------------------------
Unbuilt ==
    /\ config = NoConfig
    /\ agents = <<>>
    /\ results = <<>>
    /\ checkpoints = <<>>
    /\ context = MainContext
    /\ sorted_agents = <<>>
    /\ deployment_status = "none"
    /\ pos = 0
    /\ i = 0
    /\ site = "none"
    /\ report = NoReport
    /\ error = ""
    /\ outcome = "none"
    /\ report_files = <<>>
    /\ latest = NoReport
    /\ validate_calls = <<>>
    /\ execute_calls = <<>>
    /\ rollback_calls = <<>>

DeployOff == Unbuilt /\ pc = "off"

\* ----------------------------------------------------------------------
\* ConfidenceScorer (projects/fogg/calendar/deploy/enhanced-agents.py).
\* A factor is a number of thousandths, a weight a number of hundredths, so
\* overall_confidence is a number of hundred-thousandths.
\* ----------------------------------------------------------------------
One == 1000

Weights ==
    [code_quality           |-> 20,
     test_coverage          |-> 20,
     historical_success     |-> 15,
     timing_appropriateness |-> 10,
     team_readiness         |-> 10,
     system_health          |-> 10,
     dependency_stability   |-> 10,
     rollback_capability    |-> 5]

\* the factors in the order calculate_confidence inserts them
FactorNames ==
    <<"code_quality", "test_coverage", "historical_success", "timing_appropriateness",
      "team_readiness", "system_health", "dependency_stability", "rollback_capability">>

\* dict.get(key, default)
Get(ctx, key, default) == IF key \in DOMAIN ctx THEN ctx[key] ELSE default

Min(a, b) == IF a <= b THEN a ELSE b

\* _assess_code_quality
AssessCodeQuality(ctx) ==
    Min(850 + (IF Get(ctx, "linting_passed", TRUE) THEN 50 ELSE 0)
            + (IF Get(ctx, "type_checking_passed", TRUE) THEN 50 ELSE 0)
            + (IF Get(ctx, "code_review_approved", TRUE) THEN 50 ELSE 0),
        One)

\* _check_historical_success
CheckHistoricalSuccess(ctx) == Get(ctx, "recent_success_rate", 950)

\* the best window is closed at 15:00 sharp
AssessTiming_ToTheMinute(t) ==
    IF t.day \in {1, 2, 3} /\ 10 <= t.hour
                           /\ (t.hour < 15 \/ (t.hour = 15 /\ t.minute = 0)) THEN 1000
    ELSE IF t.day < 5 /\ 9 <= t.hour /\ t.hour <= 17 THEN 800
    ELSE IF t.day = 4 /\ t.hour >= 15 THEN 400
    ELSE IF t.day >= 5 THEN 300
    ELSE 500

\* _assess_timing, on datetime.now() = t; its two reads of the clock, one for
\* the hour and one for the weekday, are taken at one instant
AssessTiming(t) ==
    IF t.day \in {1, 2, 3} /\ 10 <= t.hour /\ t.hour <= 15 THEN 1000
    ELSE IF t.day < 5 /\ 9 <= t.hour /\ t.hour <= 17 THEN 800
    ELSE IF t.day = 4 /\ t.hour >= 15 THEN 400
    ELSE IF t.day >= 5 THEN 300
    ELSE 500

\* _assess_team_readiness
AssessTeamReadiness == 900

\* _check_system_health
CheckSystemHealth == 950

\* the factors dict of calculate_confidence
Factors(ctx, t) ==
    [code_quality           |-> AssessCodeQuality(ctx),
     test_coverage          |-> Get(ctx, "test_pass_rate", 950),
     historical_success     |-> CheckHistoricalSuccess(ctx),
     timing_appropriateness |-> AssessTiming(t),
     team_readiness         |-> AssessTeamReadiness,
     system_health          |-> CheckSystemHealth,
     dependency_stability   |-> 950,
     rollback_capability    |-> IF Get(ctx, "rollback_enabled", FALSE) THEN One ELSE 500]

RECURSIVE WeightedSum(_, _)
\* sum(factors[factor] * self.weights[factor] for factor in factors)
WeightedSum(factors, names) ==
    IF names = <<>> THEN 0
    ELSE factors[names[1]] * Weights[names[1]] + WeightedSum(factors, Tail(names))

\* _generate_recommendation
GenerateRecommendation(score) ==
    IF score >= 90000 THEN "highly confident"
    ELSE IF score >= 75000 THEN "good confidence"
    ELSE IF score >= 60000 THEN "moderate confidence"
    ELSE IF score >= 40000 THEN "low confidence"
    ELSE "very low confidence"

RECURSIVE IdentifyRisks(_, _)
\* _identify_risks
IdentifyRisks(factors, names) ==
    IF names = <<>> THEN <<>>
    ELSE (IF factors[names[1]] < 600 THEN << <<"High risk", names[1]>> >>
          ELSE IF factors[names[1]] < 800 THEN << <<"Medium risk", names[1]>> >>
          ELSE <<>>)
         \o IdentifyRisks(factors, Tail(names))

\* calculate_confidence(deployment_context) when datetime.now() is t
CalculateConfidence(ctx, t) ==
    LET factors == Factors(ctx, t)
        overall == WeightedSum(factors, FactorNames)
    IN  [overall_confidence |-> overall,
         factors            |-> factors,
         recommendation     |-> GenerateRecommendation(overall),
         risk_areas         |-> IdentifyRisks(factors, FactorNames)]

\* the result map execute_deployment returns: test_pass_rate is 98.5
ExecuteDeploymentResult ==
    ("status" :> "success") @@ ("test_pass_rate" :> 98500) @@ ("rollback_ready" :> TRUE)

EmptyScorerContext == [k \in {} |-> 0]

BestScorerContext ==
    ("test_pass_rate" :> 1000) @@ ("recent_success_rate" :> 1000)
        @@ ("rollback_enabled" :> TRUE)

WorstScorerContext ==
    ("test_pass_rate" :> 0) @@ ("recent_success_rate" :> 0) @@ ("rollback_enabled" :> FALSE)
        @@ ("linting_passed" :> FALSE) @@ ("type_checking_passed" :> FALSE)
        @@ ("code_review_approved" :> FALSE)

UnlintedScorerContext == ("linting_passed" :> FALSE) @@ ("rollback_enabled" :> TRUE)

\* the contexts a caller passes to calculate_confidence
ScorerContexts ==
    {EmptyScorerContext, BestScorerContext, WorstScorerContext, UnlintedScorerContext}

Clocks == [day : 0..6, hour : 0..23, minute : {0, 30}]

\* half an hour later
HalfHourLater(t) ==
    IF t.minute = 0 THEN [t EXCEPT !.minute = 30]
    ELSE IF t.hour < 23 THEN [t EXCEPT !.minute = 0, !.hour = t.hour + 1]
    ELSE [day |-> (t.day + 1) % 7, hour |-> 0, minute |-> 0]

ScorerInit ==
    /\ DeployOff
    /\ MainOff
    /\ AgentsOff
    /\ ReuseOff
    /\ now \in Clocks
    /\ ticks = 0
    /\ scorer_calls = <<>>

\* time passes
Tick ==
    /\ ticks < MaxTicks
    /\ now' = HalfHourLater(now)
    /\ ticks' = ticks + 1
    /\ UNCHANGED <<scorer_calls, deployvars, mainvars, agentvars, reusevars>>

ScorerCall(ctx, t) == [context |-> ctx, at |-> t, result |-> CalculateConfidence(ctx, t)]

\* a caller asks for the confidence of a context
CallCalculateConfidence ==
    /\ Len(scorer_calls) < MaxScorerCalls
    /\ \E ctx \in ScorerContexts :
         scorer_calls' = Append(scorer_calls, ScorerCall(ctx, now))
    /\ UNCHANGED <<now, ticks, deployvars, mainvars, agentvars, reusevars>>

\* handle_natural_command: calculate_confidence(result) on what
\* execute_deployment returned
HandleNaturalCommand ==
    /\ Len(scorer_calls) < MaxScorerCalls
    /\ scorer_calls' = Append(scorer_calls, ScorerCall(ExecuteDeploymentResult, now))
    /\ UNCHANGED <<now, ticks, deployvars, mainvars, agentvars, reusevars>>

ScorerNext ==
    \/ Tick
    \/ CallCalculateConfidence
    \/ HandleNaturalCommand

\* a ConfidenceScorer called at any time of the week
SpecScorer == ScorerInit /\ [][ScorerNext]_vars

\* ----------------------------------------------------------------------
\* main() and other callers: from the arguments to the exit code
\* ----------------------------------------------------------------------
\* the choices of --validation
ValidationModes == {"automated", "manual", "hybrid"}

\* the default of --priority, split at ">"
DefaultPriority == << <<"security">>, <<"performance">>, <<"testing">>, <<"architecture">> >>

\* the values of --priority main() is explored on; <<>> is --priority ""
Priorities == {DefaultPriority, <<>>, << <<"database">>, <<"security">> >>}

\* what argparse accepts: --agents takes one name or more, the choices are checked
Argvs ==
    [agents     : SeqsNoDup(AgentNames, MaxArgAgents) \ {<<>>},
     priority   : Priorities,
     validation : ValidationModes,
     rollback   : {"enabled", "disabled"}]

\* main(): priority_chain[p.strip()] = i + 1 for the parts of --priority
ParsePriority(p) == IF p = <<>> THEN EmptyChain ELSE ChainOf(p)

\* what a caller other than main() may hand to DeploymentConfig
CallerArgs ==
    {ConfigArgs(a, c, m, r) : a \in SeqsNoDup(AgentNames, MaxArgAgents),
                              c \in {EmptyChain, DatabaseChain},
                              m \in {"automated", "bogus"},
                              r \in BOOLEAN}

MainInit ==
    /\ Unbuilt
    /\ ScorerOff
    /\ AgentsOff
    /\ ReuseOff
    /\ stdout = <<>>
    /\ exit_code = -1
    /\ \/ /\ entry = "main"
          /\ argv \in Argvs
          /\ args = NoConfig
          /\ pc = "parse"
       \/ /\ entry = "caller"
          /\ argv = NoArgv
          /\ args \in CallerArgs
          /\ pc = "construct"

\* main(): parser.parse_args() and the priority chain
ParseArgs ==
    /\ pc = "parse"
    /\ args' = ConfigArgs(argv.agents, ParsePriority(argv.priority), argv.validation,
                          argv.rollback = "enabled")
    /\ pc' = "construct"
    /\ UNCHANGED <<config, agents, results, checkpoints, context, sorted_agents,
                   deployment_status, pos, i, site, report, error, outcome, report_files,
                   latest, validate_calls, execute_calls, rollback_calls>>
    /\ UNCHANGED <<entry, argv, stdout, exit_code, scorervars, agentvars, reusevars>>

\* DeploymentConfig(...): __post_init__ raises or completes the configuration
ConstructConfig ==
    /\ pc = "construct"
    /\ IF PostInitRaises(args)
       THEN /\ pc' = "failed"
            /\ error' = "ValueError"
            /\ exit_code' = IF entry = "main" THEN 1 ELSE exit_code
            /\ config' = config
       ELSE /\ pc' = "init"
            /\ config' = PostInit(args)
            /\ UNCHANGED <<error, exit_code>>
    /\ UNCHANGED <<agents, results, checkpoints, context, sorted_agents,
                   deployment_status, pos, i, site, report, outcome, report_files,
                   latest, validate_calls, execute_calls, rollback_calls>>
    /\ UNCHANGED <<entry, argv, args, stdout, scorervars, agentvars, reusevars>>

\* CriticalWorkflowOrchestrator(config), and the context deploy() is given
BuildOrchestrator ==
    /\ pc = "init"
    /\ agents' = InitializeAgents(config.agents)
    /\ context' \in IF entry = "main" THEN {MainContext} ELSE Contexts
    /\ pc' = "idle"
    /\ UNCHANGED <<config, results, checkpoints, sorted_agents,
                   deployment_status, pos, i, site, report, error, outcome, report_files,
                   latest, validate_calls, execute_calls, rollback_calls>>
    /\ UNCHANGED othervars

\* the keys of a report of _generate_report
ReportKeys ==
    {"deployment_id", "status", "start_time", "end_time", "duration_seconds",
     "configuration", "agent_results", "metrics_summary", "errors", "warnings"}

\* the keys of the dict deploy() returns from its except clause
ErrorKeys == {"status", "error", "duration"}

ReturnedKeys == IF outcome = "report" THEN ReportKeys ELSE ErrorKeys

ReturnedStatus == IF outcome = "report" THEN report.status ELSE "error"

Line(label, value) == [label |-> label, value |-> value]

\* the lines main() prints after deploy() returned a report
SummaryLines(r) ==
    << Line("Status", r.status), Line("Duration", "seconds"),
       Line("Success Rate", r.success_rate) >>
    \o (IF r.errors # <<>> THEN << Line("Errors", r.errors) >> ELSE <<>>)
    \o (IF r.warnings # <<>> THEN << Line("Warnings", r.warnings) >> ELSE <<>>)
    \o << Line("Detailed report saved to", "deploy/reports/latest.json") >>

\* main(): the prints after deploy() returned; report['duration_seconds'] raises
\* KeyError on a dict without that key, and the process ends with the traceback
PrintSummary ==
    /\ entry = "main"
    /\ pc = "done"
    /\ outcome \in {"report", "error"}
    /\ IF "duration_seconds" \in ReturnedKeys
       THEN /\ stdout' = SummaryLines(report)
            /\ pc' = "exit"
            /\ exit_code' = exit_code
       ELSE /\ stdout' = << Line("Status", ReturnedStatus) >>
            /\ pc' = "crashed"
            /\ exit_code' = 1
    /\ UNCHANGED <<config, agents, results, checkpoints, context, sorted_agents,
                   deployment_status, pos, i, site, report, error, outcome, report_files,
                   latest, validate_calls, execute_calls, rollback_calls>>
    /\ UNCHANGED <<entry, argv, args, scorervars, agentvars, reusevars>>

\* only success gives 0
ExitCode_SuccessOnly(status) == IF status = "success" THEN 0 ELSE 1

\* 0 if report["status"] in ["success", "rolled_back"] else 1
ExitCode(status) == IF status \in {"success", "rolled_back"} THEN 0 ELSE 1

\* main(): sys.exit(...)
Exit ==
    /\ pc = "exit"
    /\ exit_code' = ExitCode(ReturnedStatus)
    /\ pc' = "exited"
    /\ UNCHANGED <<config, agents, results, checkpoints, context, sorted_agents,
                   deployment_status, pos, i, site, report, error, outcome, report_files,
                   latest, validate_calls, execute_calls, rollback_calls>>
    /\ UNCHANGED <<entry, argv, args, stdout, scorervars, agentvars, reusevars>>

\* an exception that left deploy() leaves main() too
Uncaught ==
    /\ entry = "main"
    /\ pc = "done"
    /\ outcome = "raised"
    /\ pc' = "crashed"
    /\ exit_code' = 1
    /\ UNCHANGED <<config, agents, results, checkpoints, context, sorted_agents,
                   deployment_status, pos, i, site, report, error, outcome, report_files,
                   latest, validate_calls, execute_calls, rollback_calls>>
    /\ UNCHANGED <<entry, argv, args, stdout, scorervars, agentvars, reusevars>>

MainNext ==
    \/ ParseArgs
    \/ ConstructConfig
    \/ BuildOrchestrator
    \/ Next
    \/ PrintSummary
    \/ Exit
    \/ Uncaught

\* the program from the arguments on: run by main() or built by another caller
SpecMain == MainInit /\ [][MainNext]_vars

\* ----------------------------------------------------------------------
\* execute() of the four concrete agents
\* ----------------------------------------------------------------------
security_checks ==
    <<"vulnerability_scan", "dependency_audit", "secrets_scan", "permission_audit",
      "ssl_validation", "authentication_check", "authorization_review",
      "input_validation", "encryption_verification">>

test_suites ==
    <<"unit_tests", "integration_tests", "api_tests", "load_tests", "security_tests",
      "regression_tests", "smoke_tests", "e2e_tests">>

optimization_tasks ==
    <<"analyze_queries", "optimize_indexes", "vacuum_tables", "update_statistics",
      "configure_pooling", "optimize_cache", "check_fragmentation",
      "validate_constraints">>

\* an entry of result.metrics: the sub-check, its critical findings, its
\* findings that are not critical
Metric(name, critical, minor) ==
    [name |-> name, critical_issues |-> critical, minor |-> minor]

\* _run_security_check: every check reports no critical issue and no warning
RunSecurityCheck(check) == [check |-> check, critical_issues |-> 0, warnings |-> 0]

\* random.randint(50, 200) of _run_test_suite, at its two ends
SuiteTotals == {50, 200}

\* random.randint(0, 5) of _run_test_suite, at its two ends
SuiteFailures == {0, 5}

\* _run_test_suite
RunTestSuite(suite, total, failed) ==
    [suite |-> suite, total |-> total, passed |-> total - failed, failed |-> failed]

\* the module binds the name random only when it is run as a script
RandomBound == entry = "main"

\* _capture_baseline_metrics
BaselineMetrics == [response_time_ms |-> 150, throughput_rps |-> 1000]

\* _capture_improved_metrics
ImprovedMetrics == [response_time_ms |-> 100, throughput_rps |-> 1500]

\* _calculate_improvement, in hundredths of a percent
CalculateImprovement(baseline, improved) ==
    LET rt == ((baseline.response_time_ms - improved.response_time_ms) * 10000)
                  \div baseline.response_time_ms
        tp == ((improved.throughput_rps - baseline.throughput_rps) * 10000)
                  \div baseline.throughput_rps
    IN  (rt + tp) \div 2

\* _capture_db_state
DbState == [query_time_avg_ms |-> 50, index_hit_rate |-> 85, cache_hit_rate |-> 70]

\* _calculate_db_improvements: overall_improvement, in hundredths of a percent
OverallDbImprovement(initial, optimized) ==
    LET q == ((initial.query_time_avg_ms - optimized.query_time_avg_ms) * 10000)
                 \div initial.query_time_avg_ms
        x == ((optimized.index_hit_rate - initial.index_hit_rate) * 10000)
                 \div initial.index_hit_rate
        c == ((optimized.cache_hit_rate - initial.cache_hit_rate) * 10000)
                 \div initial.cache_hit_rate
    IN  (q + x + c) \div 3

\* TestAutomator.execute: the status a pass rate gives
StatusOfPassRate(t) ==
    IF t.total > 0 /\ t.passed * 100 >= 80 * t.total THEN PASSED ELSE FAILED

\* TestAutomator.execute: what the pass rate appends to warnings
WarningsOfPassRate(t) ==
    IF t.total > 0 /\ t.passed * 100 >= 80 * t.total /\ t.passed * 100 < 95 * t.total
    THEN <<"Testing passed with warnings">> ELSE <<>>

AgentsInit ==
    /\ DeployOff
    /\ ScorerOff
    /\ ReuseOff
    /\ entry \in {"main", "caller"}
    /\ argv = NoArgv
    /\ args = NoConfig
    /\ stdout = <<>>
    /\ exit_code = -1
    /\ agent_pc = "idle"
    /\ step = 0
    /\ tally = NoTally
    /\ agent_result = NewResult(<<>>)
    /\ fault = ""

\* the exception is dropped and the result stays as it is
OnFault_Ignored(result, e) == result

\* except Exception as e: status FAILED and str(e) appended to errors
OnFault(result, e) == [result EXCEPT !.status = FAILED, !.errors = Append(@, e)]

\* finally: result.end_time = datetime.now()
Finally(result) == [result EXCEPT !.end_time = <<"set">>]

\* entry of execute() of one of the agents
StartExecute ==
    /\ agent_pc = "idle"
    /\ \E a \in agent_classes : agent_result' = NewResult(a)
    /\ step' = 1
    /\ agent_pc' = "loop"
    /\ UNCHANGED <<tally, fault, deployvars, scorervars, mainvars, reusevars>>

\* SecurityAuditor.execute: one turn of the loop over self.security_checks
SecurityCheck ==
    /\ agent_pc = "loop"
    /\ agent_result.agent = SecurityAuditor
    /\ LET check == security_checks[step]
           cr    == RunSecurityCheck(check)
           m     == Append(agent_result.metrics,
                           Metric(check, cr.critical_issues, cr.warnings))
       IN  IF cr.critical_issues > 0
           THEN /\ agent_result' = Finally([agent_result EXCEPT
                                               !.metrics = m,
                                               !.errors = Append(@, check),
                                               !.status = FAILED])
                /\ agent_pc' = "returned"
                /\ step' = step
           ELSE /\ agent_result' = [agent_result EXCEPT
                                       !.metrics = m,
                                       !.warnings = IF cr.warnings > 0 THEN Append(@, check)
                                                                       ELSE @,
                                       !.status = IF step = Len(security_checks)
                                                  THEN PASSED ELSE @,
                                       !.end_time = IF step = Len(security_checks)
                                                    THEN <<"set">> ELSE @]
                /\ agent_pc' = IF step = Len(security_checks) THEN "returned" ELSE "loop"
                /\ step' = step + 1
    /\ UNCHANGED <<tally, fault, deployvars, scorervars, mainvars, reusevars>>

\* PerformanceEngineer.execute
PerformanceExecute ==
    /\ agent_pc = "loop"
    /\ agent_result.agent = PerformanceEngineer
    /\ LET improvement == CalculateImprovement(BaselineMetrics, ImprovedMetrics)
       IN  agent_result' = Finally(
               [agent_result EXCEPT
                   !.metrics = << Metric("baseline", 0, 0), Metric("optimizations", 0, 0),
                                  Metric("improved", 0, 0),
                                  Metric("improvement_percentage", 0,
                                         IF improvement >= 0 THEN 0 ELSE 1) >>,
                   !.warnings = IF improvement >= 0 THEN @
                                ELSE Append(@, "Performance degraded"),
                   !.status = PASSED])
    /\ agent_pc' = "returned"
    /\ UNCHANGED <<step, tally, fault, deployvars, scorervars, mainvars, reusevars>>

\* TestAutomator.execute: one turn of the loop over self.test_suites, and
\* after the last one the pass rate and the status
TestSuite ==
    /\ agent_pc = "loop"
    /\ agent_result.agent = TestAutomator
    /\ \E total \in SuiteTotals,
          failed \in IF test_suites[step] = "smoke_tests" THEN {0} ELSE SuiteFailures :
         LET suite == test_suites[step]
             sr    == RunTestSuite(suite, total, failed)
             t     == [total  |-> tally.total + sr.total,
                       passed |-> tally.passed + sr.passed,
                       failed |-> tally.failed + sr.failed]
             m     == Append(agent_result.metrics, Metric(suite, 0, sr.failed))
             w     == IF sr.failed > 0 THEN Append(agent_result.warnings, suite)
                                       ELSE agent_result.warnings
         IN  /\ tally' = t
             /\ IF step < Len(test_suites)
                THEN /\ agent_result' = [agent_result EXCEPT !.metrics = m, !.warnings = w]
                     /\ agent_pc' = "loop"
                ELSE /\ agent_result' = Finally(
                            [agent_result EXCEPT
                                !.metrics = Append(m, Metric("overall", 0, t.failed)),
                                !.warnings = w \o WarningsOfPassRate(t),
                                !.errors = IF StatusOfPassRate(t) = FAILED
                                           THEN Append(@, "Testing failed") ELSE @,
                                !.status = StatusOfPassRate(t)])
                     /\ agent_pc' = "returned"
    /\ step' = step + 1
    /\ UNCHANGED <<fault, deployvars, scorervars, mainvars, reusevars>>

\* DatabaseOptimizer.execute: before the first task the initial state and the
\* rollback data; one turn of the loop over self.optimization_tasks, whose
\* _run_optimization_task raises NameError where random is not bound; after
\* the last task the optimized state, the improvements and the status
DatabaseTask ==
    /\ agent_pc = "loop"
    /\ agent_result.agent = DatabaseOptimizer
    /\ LET task    == optimization_tasks[step]
           started == IF step = 1
                      THEN [agent_result EXCEPT
                               !.metrics = << Metric("initial_state", 0, 0) >>,
                               !.rollback_data = RollbackData(DatabaseOptimizer)]
                      ELSE agent_result
       IN  IF ~RandomBound
           THEN /\ fault' = "name 'random' is not defined"
                /\ agent_result' = Finally(OnFault(started, fault'))
                /\ agent_pc' = "returned"
                /\ step' = step
           ELSE LET m == Append(started.metrics, Metric(task, 0, 0))
                IN  /\ step' = step + 1
                    /\ fault' = fault
                    /\ IF step < Len(optimization_tasks)
                       THEN /\ agent_result' = [started EXCEPT !.metrics = m]
                            /\ agent_pc' = "loop"
                       ELSE /\ agent_result' = Finally(
                                  [started EXCEPT
                                      !.metrics = m \o << Metric("optimized_state", 0, 0),
                                                          Metric("improvements", 0, 0) >>,
                                      !.warnings =
                                          IF OverallDbImprovement(DbState, DbState) > 0
                                          THEN @
                                          ELSE Append(@, "No significant database improvements achieved"),
                                      !.status = PASSED])
                            /\ agent_pc' = "returned"
    /\ UNCHANGED <<tally, deployvars, scorervars, mainvars, reusevars>>

AgentsNext ==
    \/ StartExecute
    \/ SecurityCheck
    \/ PerformanceExecute
    \/ TestSuite
    \/ DatabaseTask

\* one call of execute() of a concrete agent, in a module run as a script
\* ("main") or loaded by another caller
SpecAgents == AgentsInit /\ [][AgentsNext]_vars

\* ----------------------------------------------------------------------
\* One orchestrator instance, deploy() called on it again and again
\* ----------------------------------------------------------------------
\* the configurations the instance is built with
ReuseConfigs ==
    {PostInit(ConfigArgs(a, EmptyChain, "automated", r)) :
        a \in {<<SecurityAuditor>>},
        r \in BOOLEAN}

ReuseInit ==
    /\ config \in ReuseConfigs
    /\ agents = InitializeAgents(config.agents)
    /\ results = <<>>
    /\ checkpoints = <<>>
    /\ context = MainContext
    /\ sorted_agents = <<>>
    /\ deployment_status = "none"
    /\ pc = "idle"
    /\ pos = 0
    /\ i = 0
    /\ site = "none"
    /\ report = NoReport
    /\ error = ""
    /\ outcome = "none"
    /\ report_files = <<>>
    /\ latest = NoReport
    /\ validate_calls = <<>>
    /\ execute_calls = <<>>
    /\ rollback_calls = <<>>
    /\ ScorerOff
    /\ MainOff
    /\ AgentsOff
    /\ ReuseOff

\* the caller calls deploy(context) again on the same instance, with a context
\* of its own: self.results and self.checkpoints are as the last call left them
DeployAgain ==
    /\ pc = "done"
    /\ deploy_calls < MaxCalls
    /\ deploy_calls' = deploy_calls + 1
    /\ base' = [results |-> Len(results), rollbacks |-> Len(rollback_calls)]
    /\ context' = MainContext
    /\ pc' = "idle"
    /\ sorted_agents' = <<>>
    /\ deployment_status' = "none"
    /\ pos' = 0
    /\ i' = 0
    /\ site' = "none"
    /\ report' = NoReport
    /\ error' = ""
    /\ outcome' = "none"
    /\ UNCHANGED <<config, agents, results, checkpoints, report_files, latest,
                   validate_calls, execute_calls, rollback_calls>>
    /\ UNCHANGED <<scorervars, mainvars, agentvars>>

ReuseNext ==
    \/ Next
    \/ DeployAgain

\* an orchestrator built once and deployed with up to MaxCalls times
SpecReuse == ReuseInit /\ [][ReuseNext]_vars

\* ----------------------------------------------------------------------
\* Vocabulary of the properties
\* ----------------------------------------------------------------------
AgentsOf(rs) == [k \in DOMAIN rs |-> rs[k].agent]

HasFailed == \E k \in DOMAIN results : results[k].status = FAILED

AllPassed == \A k \in DOMAIN execute_calls : execute_calls[k].status = PASSED

\* the number of agents whose execute() ended in PASSED or FAILED
TerminalCount ==
    Cardinality({k \in DOMAIN execute_calls : execute_calls[k].status \in {PASSED, FAILED}})

IsSite(c, where) == c.site = where

\* the rollback() calls of the _perform_rollback started after a FAILED result
FailureCalls == SelectSeq(rollback_calls, LAMBDA c : IsSite(c, "failure"))

\* the rollback() calls of the _perform_rollback started by the except clause
HandlerCalls == SelectSeq(rollback_calls, LAMBDA c : IsSite(c, "handler"))

Returned == pc = "done" /\ outcome = "report"

\* the results a FAILED run would roll back if the failed agent were left out
\* unless it carries rollback data
CompletedOrWithData(r) == r.status = PASSED \/ r.rollback_data # None

\* ----------------------------------------------------------------------
\* C1
\* ----------------------------------------------------------------------
\* C1 as stated: when an agent fails and rollback is enabled, the returned
\* report has status rolled_back and rollback was called for the agents that
\* completed before the failure, in reverse order, and for the failed agent
\* only if its result carries rollback data.
C1_FailedAgentNotRolledBack ==
    (Returned /\ config.rollback_enabled /\ HasFailed) =>
        /\ report.status = "rolled_back"
        /\ AgentsOf(rollback_calls) = Reverse(AgentsOf(SelectSeq(results, CompletedOrWithData)))

\* C1 amended: when an agent fails and rollback is enabled, a returned report
\* has status rolled_back, and the rollback procedure started by the failure
\* calls rollback for the recorded results in reverse order of execution,
\* beginning with the failed agent itself whether or not it carries rollback
\* data, once each, stopping early only when a rollback call raises.
C1_RollbackCoversFailedAgent ==
    (config.rollback_enabled /\ HasFailed) =>
        /\ IsPrefix(AgentsOf(FailureCalls), Reverse(AgentsOf(results)))
        /\ \A k \in 1..(Len(FailureCalls) - 1) : FailureCalls[k].returned # "raise"
        /\ (Len(FailureCalls) < Len(results)) =>
               \/ pc = "rollback" /\ site = "failure"
               \/ FailureCalls # <<>> /\ FailureCalls[Len(FailureCalls)].returned = "raise"
        /\ Returned => report.status = "rolled_back"
        /\ Returned => AgentsOf(rollback_calls) = Reverse(AgentsOf(results))

\* witness of C1: A, B, C ran, C failed without rollback data, and the report
\* came back after rollback of C, B, A
C1_Witness ==
    /\ Returned /\ config.rollback_enabled
    /\ Len(results) = 3
    /\ results[3].status = FAILED /\ results[3].rollback_data = None
    /\ AgentsOf(rollback_calls) = <<results[3].agent, results[2].agent, results[1].agent>>
    /\ report.status = "rolled_back"

\* ----------------------------------------------------------------------
\* C2
\* ----------------------------------------------------------------------
\* C2 as stated: with the chain security:1, performance:2, testing:3,
\* database:4, all four agents configured in any order and all passing, the
\* report lists security-auditor, performance-engineer, test-automator,
\* database-optimizer in that order.
C2_PriorityOrder ==
    (/\ Returned
     /\ config.priority_chain = DatabaseChain
     /\ Range(config.agents) = agent_classes
     /\ AllPassed) =>
        AgentsOf(report.agent_results) =
            <<SecurityAuditor, PerformanceEngineer, TestAutomator, DatabaseOptimizer>>

\* ----------------------------------------------------------------------
\* C3
\* ----------------------------------------------------------------------
\* C3: once a result with status FAILED is recorded, no step of the run adds
\* a checkpoint, calls execute or records a result, with rollback enabled or not.
C3_NoAgentAfterFailure ==
    [][HasFailed => /\ checkpoints' = checkpoints
                    /\ execute_calls' = execute_calls
                    /\ results' = results]_vars

\* witness of C3: the run ended after a failure with agents never executed
C3_Witness ==
    /\ pc = "done" /\ HasFailed
    /\ Len(execute_calls) < Len(sorted_agents)
    /\ Len(checkpoints) = Len(execute_calls)

\* ----------------------------------------------------------------------
\* C4
\* ----------------------------------------------------------------------
\* C4: with rollback disabled, no rollback is called at any point of a run,
\* and a run in which an agent failed has deployment status failed, which is
\* the status of the report it returns.
C4_FailedWithoutRollback ==
    ~config.rollback_enabled =>
        /\ rollback_calls = <<>>
        /\ HasFailed => deployment_status = "failed"
        /\ (HasFailed /\ Returned) => report.status = "failed"

\* witness of C4: a report with status failed came back, rollback disabled
C4_Witness ==
    /\ Returned /\ ~config.rollback_enabled /\ HasFailed
    /\ report.status = "failed"
    /\ Len(results) >= 2

\* ----------------------------------------------------------------------
\* C5
\* ----------------------------------------------------------------------
\* C5: every instantiated agent has been validated before the first
\* checkpoint or execute; and once a validate returned false there is no
\* checkpoint, no execute, no result, and deploy() ends with the error result.
C5_ValidateBeforeExecute ==
    /\ (pc \in {"checkpoint", "execute"} \/ checkpoints # <<>> \/ execute_calls # <<>>) =>
           /\ AgentsOf(validate_calls) = agents
           /\ \A k \in DOMAIN validate_calls : validate_calls[k].returned = "True"
    /\ (\E k \in DOMAIN validate_calls : validate_calls[k].returned = "False") =>
           /\ checkpoints = <<>> /\ execute_calls = <<>> /\ results = <<>>
           /\ pc \in {"except", "done"}
           /\ pc = "done" => outcome = "error"

\* witness of C5: the second agent's validate returned false and deploy()
\* returned the error result
C5_Witness ==
    /\ pc = "done" /\ outcome = "error"
    /\ Len(validate_calls) = 2 /\ Len(agents) > 2
    /\ validate_calls[2].returned = "False"
    /\ checkpoints = <<>> /\ results = <<>>
    /\ config.rollback_enabled

\* ----------------------------------------------------------------------
\* C6
\* ----------------------------------------------------------------------
\* C6 as stated: whatever fault an agent's validate, execute or rollback or
\* the report's generation or persistence raises, deploy() returns a report
\* or the error object and never lets an exception reach its caller.
C6_NoFaultEscapes == pc = "done" => outcome \in {"report", "error"}

\* ----------------------------------------------------------------------
\* C7
\* ----------------------------------------------------------------------
\* the faults C7 lists: validation, checkpointing, execute, report saving
ListedFaults ==
    {"RuntimeError: validation failed", "validate raised", "TypeError",
     "execute raised", "OSError"}

\* C7 as stated: when a fault is raised in validation, checkpointing,
\* execute or report saving, deploy() returns the error result, and rollback
\* is attempted over exactly the recorded results iff rollback is enabled.
C7_FaultReturnsError ==
    (pc = "done" /\ error \in ListedFaults) =>
        /\ outcome = "error"
        /\ AgentsOf(HandlerCalls) =
              IF config.rollback_enabled THEN Reverse(AgentsOf(results)) ELSE <<>>

\* ----------------------------------------------------------------------
\* C8
\* ----------------------------------------------------------------------
\* C8 as stated: a returned report has as many agent_results as agents
\* reached a terminal state, at most the number of configured agents, and
\* strictly fewer whenever an agent failure stopped the loop.
C8_FewerResultsAfterFailure ==
    Returned =>
        /\ Len(report.agent_results) = TerminalCount
        /\ Len(report.agent_results) <= Len(config.agents)
        /\ HasFailed => Len(report.agent_results) < Len(config.agents)

\* C8 amended: whenever deploy() returns a report, it has as many
\* agent_results as agents reached a terminal state, at most the number of
\* configured agents, and strictly fewer whenever an agent failure stopped
\* the loop while agents were still waiting to be executed.
C8_ResultsCountTerminalAgents ==
    Returned =>
        /\ Len(report.agent_results) = TerminalCount
        /\ Len(report.agent_results) <= Len(config.agents)
        /\ (HasFailed /\ Len(execute_calls) < Len(sorted_agents)) =>
               Len(report.agent_results) < Len(config.agents)

\* witness of C8: a report after a failure that left agents unexecuted
C8_Witness ==
    /\ Returned /\ HasFailed
    /\ Len(report.agent_results) = 2
    /\ Len(sorted_agents) > 2
    /\ TerminalCount = 2

\* ----------------------------------------------------------------------
\* C9
\* ----------------------------------------------------------------------
\* C9 as stated: whenever every executed agent returned PASSED, the report
\* has status success and success rate 100, and no rollback is called
\* during the run.
C9_AllPassedNoRollback ==
    (pc = "done" /\ AllPassed) =>
        /\ rollback_calls = <<>>
        /\ outcome = "report" =>
              /\ report.status = "success"
              /\ report.success_rate[1] = 100 * report.success_rate[2]

\* C9 amended: whenever at least one agent was executed, every executed
\* agent returned PASSED and deploy() returns a report, the report has status
\* success and success rate 100, and no rollback was called during the run.
C9_AllPassedSuccess ==
    (Returned /\ AllPassed /\ execute_calls # <<>>) =>
        /\ report.status = "success"
        /\ report.success_rate[1] = 100 * report.success_rate[2]
        /\ rollback_calls = <<>>

\* witness of C9: all four agents passed and the report came back
C9_Witness ==
    /\ Returned /\ AllPassed
    /\ Len(execute_calls) = 4
    /\ config.rollback_enabled
    /\ report.status = "success"

\* ----------------------------------------------------------------------
\* C10
\* ----------------------------------------------------------------------
\* the calls of one run of _perform_rollback go through the results from the
\* last backwards, each with the rollback_data of its own result, no agent
\* twice, and a call that returned (true or false) is followed by the call
\* for the result before it
OwnDataInOrder(calls, where) ==
    /\ Len(calls) <= Len(results)
    /\ \A k \in DOMAIN calls :
          /\ calls[k].agent = results[Len(results) + 1 - k].agent
          /\ calls[k].checkpoint = results[Len(results) + 1 - k].rollback_data
    /\ \A j, k \in DOMAIN calls : j < k => calls[j].agent # calls[k].agent
    /\ \A k \in DOMAIN calls :
          (calls[k].returned # "raise" /\ k < Len(results)) =>
              \/ k < Len(calls)
              \/ pc = "rollback" /\ site = where

\* C10: the rollback procedure calls each recorded result's agent with that
\* result's own rollback_data; a call returning false neither stops the loop
\* nor is retried, every earlier agent is still rolled back exactly once.
C10_RollbackOwnDataContinues ==
    /\ OwnDataInOrder(FailureCalls, "failure")
    /\ OwnDataInOrder(HandlerCalls, "handler")

\* witness of C10: the first rollback returned false, the two earlier agents
\* were rolled back all the same, one of them with its rollback data
C10_Witness ==
    /\ pc = "done"
    /\ Len(results) = 3 /\ Len(FailureCalls) = 3
    /\ FailureCalls[1].returned = "False"
    /\ \E k \in 2..3 : FailureCalls[k].checkpoint # None
    /\ \E k \in 2..3 : FailureCalls[k].checkpoint = None

\* ----------------------------------------------------------------------
\* C18
\* ----------------------------------------------------------------------
RankOf(name) == Rank(config.priority_chain, name)

IsRanked(name) == Category(name) \in DOMAIN config.priority_chain

\* the position of a name in the configured agents list
ConfiguredAt(name) == CHOOSE k \in DOMAIN config.agents : config.agents[k] = name

\* C18 as stated: agents execute in non-decreasing rank (999 for a category
\* absent from the chain); an agent starts only when every agent of strictly
\* lower rank has finished; agents with an absent category run after all
\* ranked ones; agents of equal rank run in configured order.
C18_ExecutionFollowsRank ==
    /\ \A j, k \in DOMAIN execute_calls :
          j < k => RankOf(execute_calls[j].agent) <= RankOf(execute_calls[k].agent)
    /\ pc \in {"checkpoint", "execute"} =>
          \A a \in Range(agents) :
              RankOf(a) < RankOf(sorted_agents[pos]) => a \in Range(AgentsOf(execute_calls))
    /\ \A j, k \in DOMAIN execute_calls :
          (j < k /\ ~IsRanked(execute_calls[j].agent)) => ~IsRanked(execute_calls[k].agent)
    /\ \A j, k \in DOMAIN execute_calls :
          (j < k /\ RankOf(execute_calls[j].agent) = RankOf(execute_calls[k].agent)) =>
              ConfiguredAt(execute_calls[j].agent) < ConfiguredAt(execute_calls[k].agent)

\* ----------------------------------------------------------------------
\* C19
\* ----------------------------------------------------------------------
\* C19: a step changes the shared context only by recording a PASSED result
\* and setting that agent's '<agentName>_results' key to the result's
\* metrics, every other key keeping its value; recording a PASSED result
\* always sets the key, recording a FAILED one never changes the context.
C19_ContextWrittenOnlyOnPass ==
    [][/\ context' # context =>
              /\ Len(results') = Len(results) + 1
              /\ results'[Len(results')].status = PASSED
              /\ DOMAIN context' =
                     DOMAIN context \cup {ResultsKey(results'[Len(results')].agent)}
              /\ \A k \in DOMAIN context :
                     k # ResultsKey(results'[Len(results')].agent) => context'[k] = context[k]
       /\ (Len(results') = Len(results) + 1 /\ results'[Len(results')].status = PASSED) =>
              /\ ResultsKey(results'[Len(results')].agent) \in DOMAIN context'
              /\ context'[ResultsKey(results'[Len(results')].agent)] =
                     results'[Len(results')].metrics
       /\ (Len(results') = Len(results) + 1 /\ results'[Len(results')].status = FAILED) =>
              context' = context]_vars

\* witness of C19: two agents passed and were merged, a third failed and was
\* not, and the caller's own key is still there
C19_Witness ==
    /\ pc = "done" /\ Len(results) = 3
    /\ results[1].status = PASSED /\ results[2].status = PASSED
    /\ results[3].status = FAILED
    /\ DOMAIN context = DOMAIN MainContext
                            \cup {ResultsKey(results[1].agent), ResultsKey(results[2].agent)}
    /\ \A k \in DOMAIN MainContext : context[k] = MainContext[k]

\* ----------------------------------------------------------------------
\* C13
\* ----------------------------------------------------------------------
Friday == 4

\* C13 as stated: on a Friday at any hour from 15:00 on, the
\* timing-appropriateness factor is 0.4.
C13_FridayAfternoon ==
    \A k \in DOMAIN scorer_calls :
        (scorer_calls[k].at.day = Friday /\ scorer_calls[k].at.hour >= 15) =>
            scorer_calls[k].result.factors.timing_appropriateness = 400

\* ----------------------------------------------------------------------
\* C14
\* ----------------------------------------------------------------------
\* C14 as stated: the weights sum to 1, overall_confidence is the weighted
\* sum of the factors, and for every context calculate_confidence is called
\* with, every factor and overall_confidence lie in [0, 1].
C14_FactorsInUnitInterval ==
    /\ WeightedSum([n \in Range(FactorNames) |-> 1], FactorNames) = 100
    /\ \A k \in DOMAIN scorer_calls :
          LET r == scorer_calls[k].result
          IN  /\ r.overall_confidence = WeightedSum(r.factors, FactorNames)
              /\ \A n \in Range(FactorNames) : 0 <= r.factors[n] /\ r.factors[n] <= One
              /\ 0 <= r.overall_confidence /\ r.overall_confidence <= 100 * One

Constructed == pc \notin {"parse", "construct", "failed"}

\* C11: once DeploymentConfig was called with an empty agents list, it has
\* raised ValueError, no configuration and no orchestrator exist, and no
\* agent was validated or executed.
C11_EmptyAgentsRefused ==
    (entry # "none" /\ pc \notin {"parse", "construct"} /\ args.agents = <<>>) =>
        /\ pc = "failed"
        /\ error = "ValueError"
        /\ config = NoConfig
        /\ agents = <<>>
        /\ validate_calls = <<>>
        /\ execute_calls = <<>>

\* witness of C11: the construction with an empty agents list has raised
C11_Witness ==
    /\ entry = "caller"
    /\ args.agents = <<>>
    /\ pc = "failed"
    /\ error = "ValueError"

\* ----------------------------------------------------------------------
\* C12
\* ----------------------------------------------------------------------
\* C12 as stated: a DeploymentConfig whose validation_mode is none of
\* automated, manual and hybrid is never constructed, so deploy() never runs
\* on it.
C12_UnknownModeRefused ==
    (entry # "none" /\ pc # "parse" /\ args.validation_mode \notin ValidationModes) =>
        ~Constructed

\* ----------------------------------------------------------------------
\* C16
\* ----------------------------------------------------------------------
ProcessEnded == entry = "main" /\ pc \in {"exited", "crashed"}

\* C16: when the process of main() has ended after deploy() returned, its
\* exit code is 0 if the returned status is success or rolled_back and 1 if
\* it is anything else.
C16_ExitCode ==
    (ProcessEnded /\ outcome \in {"report", "error"}) =>
        /\ exit_code \in {0, 1}
        /\ exit_code = 0 <=> ReturnedStatus \in {"success", "rolled_back"}

\* witness of C16: the process ended with 0 after a rolled_back report
C16_Witness ==
    /\ ProcessEnded
    /\ outcome = "report"
    /\ ReturnedStatus = "rolled_back"
    /\ exit_code = 0

\* ----------------------------------------------------------------------
\* C17
\* ----------------------------------------------------------------------
Printed(label) == \E k \in DOMAIN stdout : stdout[k].label = label

\* C17 as stated: whatever deploy() returned, when the process of main() has
\* ended it has printed the status, the duration, the success rate, the
\* errors and warnings there are, and the path of the report, and it has
\* ended at its exit statement.
C17_SummaryAlwaysPrinted ==
    (ProcessEnded /\ outcome \in {"report", "error"}) =>
        /\ Printed("Status")
        /\ Printed("Duration")
        /\ Printed("Success Rate")
        /\ Printed("Detailed report saved to")
        /\ pc = "exited"

\* ----------------------------------------------------------------------
\* C20
\* ----------------------------------------------------------------------
CriticalFindings ==
    {k \in DOMAIN agent_result.metrics : agent_result.metrics[k].critical_issues > 0}

\* C20 as stated: when execute() of a concrete agent has returned, the status
\* is PASSED if no sub-check reported a critical finding and FAILED if one
\* did; in that case the critical sub-check is the last entry of metrics;
\* findings that are not critical appear among the warnings only, and no
\* error is recorded for them.
C20_StatusByCriticalFindings ==
    agent_pc = "returned" =>
        /\ agent_result.status = IF CriticalFindings = {} THEN PASSED ELSE FAILED
        /\ CriticalFindings # {} => CriticalFindings = {Len(agent_result.metrics)}
        /\ CriticalFindings = {} => agent_result.errors = <<>>

\* ----------------------------------------------------------------------
\* C23
\* ----------------------------------------------------------------------
\* C23: in every step the recorded results stay as they are, in their order,
\* or one result is added at the end; a result is added exactly in the step
\* in which an execute() returns, and it is the result of the agent executed.
C23_ResultsOnlyGrow ==
    [][/\ IsPrefix(results, results')
       /\ Len(results') <= Len(results) + 1
       /\ (Len(results') = Len(results) + 1) <=>
             (/\ Len(execute_calls') = Len(execute_calls) + 1
              /\ execute_calls'[Len(execute_calls')].status \in {PASSED, FAILED})
       /\ (Len(results') = Len(results) + 1) =>
             /\ results'[Len(results')].agent = execute_calls'[Len(execute_calls')].agent
             /\ results'[Len(results')].agent = sorted_agents[pos]]_vars

\* witness of C23: three results stand in execution order after the rollback
\* procedure and the error path have both run
C23_Witness ==
    /\ pc = "done"
    /\ Len(results) = 3
    /\ AgentsOf(results) = SubSeq(sorted_agents, 1, 3)
    /\ FailureCalls # <<>>
    /\ HandlerCalls # <<>>

\* ----------------------------------------------------------------------
\* C24
\* ----------------------------------------------------------------------
\* C24: a checkpoint is added only right before an execute(), it has state
\* pre_execution, names the agent about to be executed and hashes the
\* context as it stands then, which does not hold that agent's results yet;
\* every step that calls execute() follows such a checkpoint; and whenever
\* the loop stands between two iterations or has ended after a returned
\* execute(), there are as many checkpoints as results and the i-th
\* checkpoint names the agent of the i-th result.
C24_CheckpointPerInvocation ==
    [][/\ (checkpoints' # checkpoints) =>
             /\ checkpoints' = Append(checkpoints,
                                      [agent        |-> sorted_agents[pos],
                                       context_hash |-> ContextHash(context),
                                       state        |-> "pre_execution"])
             /\ ResultsKey(sorted_agents[pos]) \notin DOMAIN context
             /\ pc' = "execute"
       /\ (execute_calls' # execute_calls) =>
             /\ Len(checkpoints) = Len(execute_calls) + 1
             /\ checkpoints[Len(checkpoints)].agent
                    = execute_calls'[Len(execute_calls')].agent
       /\ (pc' \in {"checkpoint", "report", "save"}
              \/ (pc' = "rollback" /\ site' = "failure")) =>
             /\ Len(checkpoints') = Len(results')
             /\ \A k \in DOMAIN results' : checkpoints'[k].agent = results'[k].agent]_vars

\* witness of C24: four checkpoints for four results, the last one of a
\* failed agent
C24_Witness ==
    /\ pc = "report"
    /\ Len(checkpoints) = 4
    /\ Len(results) = 4
    /\ results[4].status = FAILED
    /\ checkpoints[4].agent = results[4].agent

\* ----------------------------------------------------------------------
\* C25
\* ----------------------------------------------------------------------
RECURSIVE Flatten(_, _)
Flatten(rs, field) ==
    IF rs = <<>> THEN <<>> ELSE rs[1][field] \o Flatten(Tail(rs), field)

\* C25: a returned report lists the summaries of the agents in execution
\* order, its errors and warnings are the agents' errors and warnings
\* concatenated in that order, total_agents is the number of agents whose
\* execute() returned, successful_agents the number of those that PASSED,
\* and success_rate is successful_agents / total_agents * 100, 0 with no agent.
C25_ReportAggregates ==
    Returned =>
        LET ran    == SelectSeq(execute_calls, LAMBDA c : c.status # "raise")
            passed == SelectSeq(execute_calls, LAMBDA c : c.status = PASSED)
        IN  /\ AgentsOf(report.agent_results) = AgentsOf(ran)
            /\ \A k \in DOMAIN ran : report.agent_results[k].status = ran[k].status
            /\ report.errors = Flatten(report.agent_results, "errors")
            /\ report.warnings = Flatten(report.agent_results, "warnings")
            /\ \A k \in DOMAIN results :
                  /\ report.agent_results[k].errors = results[k].errors
                  /\ report.agent_results[k].warnings = results[k].warnings
            /\ report.total_agents = Len(ran)
            /\ report.successful_agents = Len(passed)
            /\ report.success_rate =
                  IF Len(ran) = 0 THEN <<0, 1>> ELSE <<Len(passed) * 100, Len(ran)>>

\* witness of C25: a report over three agents, two passed and the third
\* failed, with three warnings and one error
C25_Witness ==
    /\ Returned
    /\ report.total_agents = 3
    /\ report.successful_agents = 2
    /\ Len(report.warnings) = 3
    /\ Len(report.errors) = 1
    /\ report.success_rate = <<200, 3>>

\* ----------------------------------------------------------------------
\* C26
\* ----------------------------------------------------------------------
\* C26 as stated: within one call of deploy() no agent's rollback is invoked
\* twice.
C26_RollbackAtMostOnce ==
    \A j, k \in DOMAIN rollback_calls :
        j # k => rollback_calls[j].agent # rollback_calls[k].agent

\* ----------------------------------------------------------------------
\* C28
\* ----------------------------------------------------------------------
PassedAgents == {results[k].agent : k \in {n \in DOMAIN results : results[n].status = PASSED}}

\* C28 as stated: a report with status success implies that at least one
\* agent ran and that every name of the configuration's agents list was
\* executed and returned PASSED.
C28_SuccessMeansAllConfiguredPassed ==
    (Returned /\ report.status = "success") =>
        /\ results # <<>>
        /\ Range(config.agents) \subseteq PassedAgents

\* C28 amended: a report with status success implies that every name of the
\* configuration's agents list that the registry knows was executed and
\* returned PASSED and that no result is FAILED; names the registry does not
\* know are skipped and never executed, so a configuration of unknown names
\* only yields success with no agent run.
C28_SuccessMeansRegisteredPassed ==
    /\ \A k \in DOMAIN execute_calls : execute_calls[k].agent \in agent_classes
    /\ (Returned /\ report.status = "success") =>
          /\ Range(config.agents) \cap agent_classes \subseteq PassedAgents
          /\ ~HasFailed
          /\ (Range(config.agents) \cap agent_classes = {}) =>
                (results = <<>> /\ report.success_rate = <<0, 1>>)

\* witness of C28: success although one configured name was skipped
C28_Witness ==
    /\ Returned
    /\ report.status = "success"
    /\ CodeReviewer \in Range(config.agents)
    /\ Len(results) = 2
    /\ Len(config.agents) = 3

\* ----------------------------------------------------------------------
\* C29
\* ----------------------------------------------------------------------
\* C29 as stated: if every agent executed returned PASSED, no rollback is
\* invoked during the run, whatever fails afterwards.
C29_NoRollbackAfterAllPassed ==
    (AllPassed /\ execute_calls # <<>>) => rollback_calls = <<>>

\* C29 amended: if every agent executed returned PASSED, the run loop invokes
\* no rollback and a returned report comes with no rollback at all; rollback
\* is invoked only by the except clause after a fault was caught and only if
\* rollback is enabled, and when the error result is returned it went over
\* all recorded results in reverse order.
C29_RollbackOnlyAfterFault ==
    (AllPassed /\ execute_calls # <<>>) =>
        /\ FailureCalls = <<>>
        /\ Returned => rollback_calls = <<>>
        /\ rollback_calls # <<>> => (error # "" /\ config.rollback_enabled)
        /\ (pc = "done" /\ outcome = "error") =>
              AgentsOf(HandlerCalls) =
                  IF config.rollback_enabled THEN Reverse(AgentsOf(results)) ELSE <<>>

\* witness of C29: two agents passed, writing the report failed, and both
\* were rolled back by the except clause
C29_Witness ==
    /\ AllPassed
    /\ Len(execute_calls) = 2
    /\ error = "OSError"
    /\ pc = "done"
    /\ outcome = "error"
    /\ Len(HandlerCalls) = 2

\* ----------------------------------------------------------------------
\* C30
\* ----------------------------------------------------------------------
\* C30 as stated: when deploy() returns a report, the per-run file and
\* latest.json hold that report; when it returns the error result, no
\* per-run file was written and latest.json is as it was before the run.
C30_PersistedIffReturned ==
    pc = "done" =>
        /\ outcome = "report" => (report_files = <<report>> /\ latest = report)
        /\ outcome = "error" => (report_files = <<>> /\ latest = NoReport)

\* ----------------------------------------------------------------------
\* C22
\* ----------------------------------------------------------------------
\* from:00 up to and including to:00
Between(t, from, to) ==
    from <= t.hour /\ (t.hour < to \/ (t.hour = to /\ t.minute = 0))

\* C22 as stated: outside Friday from 15:00 on, the timing factor is 1.0 on
\* Tuesday, Wednesday and Thursday between 10:00 and 15:00, else 0.8 on
\* Monday to Friday between 09:00 and 17:00, 0.3 on Saturday and Sunday, and
\* 0.5 at every other time.
C22_TimingTable ==
    \A k \in DOMAIN scorer_calls :
        LET t == scorer_calls[k].at
        IN  ~(t.day = Friday /\ t.hour >= 15) =>
                scorer_calls[k].result.factors.timing_appropriateness =
                    IF t.day \in {1, 2, 3} /\ Between(t, 10, 15) THEN 1000
                    ELSE IF t.day <= Friday /\ Between(t, 9, 17) THEN 800
                    ELSE IF t.day > Friday THEN 300
                    ELSE 500

\* ----------------------------------------------------------------------
\* C21
\* ----------------------------------------------------------------------
\* C21: execute() of each of the four agents ends by returning a result;
\* the result has status PASSED or FAILED and its end_time is set; if an
\* exception was raised inside execute(), the status is FAILED and the
\* message of the exception is the last of the errors.
C21_FaultsBecomeFailed ==
    /\ agent_pc \in {"off", "idle", "loop", "returned"}
    /\ agent_pc = "returned" =>
          /\ agent_result.status \in {PASSED, FAILED}
          /\ agent_result.end_time # None
          /\ fault # "" =>
                /\ agent_result.status = FAILED
                /\ agent_result.errors # <<>>
                /\ agent_result.errors[Len(agent_result.errors)] = fault
    /\ agent_pc = "loop" => fault = ""

\* witness of C21: DatabaseOptimizer.execute returned FAILED after the
\* NameError of its first task
C21_Witness ==
    /\ agent_pc = "returned"
    /\ agent_result.agent = DatabaseOptimizer
    /\ fault = "name 'random' is not defined"
    /\ agent_result.status = FAILED
    /\ agent_result.end_time # None

\* ----------------------------------------------------------------------
\* C27
\* ----------------------------------------------------------------------
\* the results recorded by the current call of deploy()
OwnResults == SubSeq(results, base.results + 1, Len(results))

\* the rollback() calls made by the current call of deploy()
OwnRollbacks == SubSeq(rollback_calls, base.rollbacks + 1, Len(rollback_calls))

\* C27 as stated: in every call of deploy() on an instance, the returned
\* report lists the results of that call only and computes its success rate
\* from them, and the call invokes at most one rollback per result it
\* recorded itself.
C27_CallCoversOwnResults ==
    /\ Returned =>
          /\ AgentsOf(report.agent_results) = AgentsOf(OwnResults)
          /\ report.success_rate = SuccessRate(OwnResults)
    /\ \A where \in {"failure", "handler"} :
          Len(SelectSeq(OwnRollbacks, LAMBDA c : IsSite(c, where))) <= Len(OwnResults)

====
